---- MODULE Spec2Model ----
(***************************************************************************)
(* Model of router/pkg/logging (observer.go): the zap logger factory New,  *)
(* its sink builders and encoders, ZapLogLevelFromString and NewObserver.  *)
(* Strings that the code inspects character by character (level names,     *)
(* rendered timestamps) are sequences of one-character strings.            *)
(***************************************************************************)
EXTENDS Integers, Sequences, FiniteSets, TLC

VARIABLES
    parsed,      \* last result of ZapLogLevelFromString: [in, level, err], or NotParsed
    phase,       \* "start" before New, "ready" once New returned, "exited" after os.Exit
    cfg,         \* the arguments New was called with
    logger,      \* the *zap.Logger New returned, or NoLogger
    effects,     \* side effects of newZapFileLogger's failure path, in order
    emitted,     \* severities of the records emitted through the logger, in order
    stdout,      \* records written to os.Stdout, in order
    file,        \* records written to the opened log file, in order
    mu,          \* ObservedLogs.mu: the thread holding it, or 0
    threads,     \* per emitting thread: position, records emitted, slice read by append
    observed,    \* ObservedLogs.logs
    t,           \* the time.Time of the entry handed to an encoder
    jsonTime,    \* what ZapJsonEncoder's EncodeTime appended for t
    consoleTime  \* what zapConsoleEncoder's EncodeTime appended for t

loggerVars == <<parsed, phase, cfg, logger, effects, emitted, stdout, file>>
obsVars == <<mu, threads, observed>>
timeVars == <<t, jsonTime, consoleTime>>
vars == <<parsed, phase, cfg, logger, effects, emitted, stdout, file,
          mu, threads, observed, t, jsonTime, consoleTime>>

-----------------------------------------------------------------------------
(* Bounds *)

MaxEmit == 2
NThreads == 2
MRecords == 2

-----------------------------------------------------------------------------
(* zapcore.Level values of the six levels the package names *)

DebugLevel == -1
InfoLevel  == 0
WarnLevel  == 1
ErrorLevel == 2
PanicLevel == 4
FatalLevel == 5

Levels == {DebugLevel, InfoLevel, WarnLevel, ErrorLevel, PanicLevel, FatalLevel}

\* zapcore.Level.Enabled, the comparison zapcore.NewCore's level enabler uses
\* (mutation: a strict comparison)
LevelEnabledStrict(coreLevel, lvl) == lvl > coreLevel
LevelEnabled(coreLevel, lvl) == lvl >= coreLevel

-----------------------------------------------------------------------------
(* strings.ToUpper over one-character strings *)

LowerLetters == <<"a","b","c","d","e","f","g","h","i","j","k","l","m",
                  "n","o","p","q","r","s","t","u","v","w","x","y","z">>
UpperLetters == <<"A","B","C","D","E","F","G","H","I","J","K","L","M",
                  "N","O","P","Q","R","S","T","U","V","W","X","Y","Z">>

UpperChar(c) ==
    IF \E i \in 1..Len(LowerLetters) : LowerLetters[i] = c
    THEN UpperLetters[CHOOSE i \in 1..Len(LowerLetters) : LowerLetters[i] = c]
    ELSE c

\* the lower-case letter of an upper-case one (used to spell inputs)
LowerChar(c) ==
    IF \E i \in 1..Len(UpperLetters) : UpperLetters[i] = c
    THEN LowerLetters[CHOOSE i \in 1..Len(UpperLetters) : UpperLetters[i] = c]
    ELSE c

ToUpper(s) == [i \in 1..Len(s) |-> UpperChar(s[i])]

NameDEBUG   == <<"D","E","B","U","G">>
NameINFO    == <<"I","N","F","O">>
NameWARNING == <<"W","A","R","N","I","N","G">>
NameERROR   == <<"E","R","R","O","R">>
NameFATAL   == <<"F","A","T","A","L">>
NamePANIC   == <<"P","A","N","I","C">>

NilError == [nil |-> TRUE, msg |-> <<>>]

UnknownLevelPrefix ==
    <<"u","n","k","n","o","w","n"," ","l","o","g"," ","l","e","v","e","l",":"," ">>

\* fmt.Errorf("unknown log level: %s", logLevel)
Errorf(logLevel) == [nil |-> FALSE, msg |-> UnknownLevelPrefix \o logLevel]

\* (mutation: the case "WARN" in place of "WARNING")
ZapLogLevelFromStringWarn(logLevel) ==
    LET u == ToUpper(logLevel) IN
    CASE u = NameDEBUG   -> [level |-> DebugLevel, err |-> NilError]
      [] u = NameINFO    -> [level |-> InfoLevel,  err |-> NilError]
      [] u = <<"W","A","R","N">> -> [level |-> WarnLevel,  err |-> NilError]
      [] u = NameERROR   -> [level |-> ErrorLevel, err |-> NilError]
      [] u = NameFATAL   -> [level |-> FatalLevel, err |-> NilError]
      [] u = NamePANIC   -> [level |-> PanicLevel, err |-> NilError]
      [] OTHER           -> [level |-> -1, err |-> Errorf(logLevel)]

\* (mutation: the default case returns 0)
ZapLogLevelFromStringZero(logLevel) ==
    LET u == ToUpper(logLevel) IN
    CASE u = NameDEBUG   -> [level |-> DebugLevel, err |-> NilError]
      [] u = NameINFO    -> [level |-> InfoLevel,  err |-> NilError]
      [] u = NameWARNING -> [level |-> WarnLevel,  err |-> NilError]
      [] u = NameERROR   -> [level |-> ErrorLevel, err |-> NilError]
      [] u = NameFATAL   -> [level |-> FatalLevel, err |-> NilError]
      [] u = NamePANIC   -> [level |-> PanicLevel, err |-> NilError]
      [] OTHER           -> [level |-> 0, err |-> Errorf(logLevel)]

ZapLogLevelFromString(logLevel) ==
    LET u == ToUpper(logLevel) IN
    CASE u = NameDEBUG   -> [level |-> DebugLevel, err |-> NilError]
      [] u = NameINFO    -> [level |-> InfoLevel,  err |-> NilError]
      [] u = NameWARNING -> [level |-> WarnLevel,  err |-> NilError]
      [] u = NameERROR   -> [level |-> ErrorLevel, err |-> NilError]
      [] u = NameFATAL   -> [level |-> FatalLevel, err |-> NilError]
      [] u = NamePANIC   -> [level |-> PanicLevel, err |-> NilError]
      [] OTHER           -> [level |-> -1, err |-> Errorf(logLevel)]

-----------------------------------------------------------------------------
(* Encoders, sinks and the logger *)

\* zapBaseEncoderConfig: the keys of zap.NewProductionEncoderConfig with TimeKey "time"
zapBaseEncoderConfig ==
    [TimeKey |-> "time", LevelKey |-> "level", MessageKey |-> "msg",
     CallerKey |-> "caller", StacktraceKey |-> "stacktrace",
     EncodeDuration |-> "seconds"]

ZapJsonEncoder == [kind |-> "json", ec |-> zapBaseEncoderConfig]

zapConsoleEncoder == [kind |-> "console", ec |-> zapBaseEncoderConfig]

BaseFields == {"hostname", "pid"}

\* core.With(hostname, pid)
attachBaseFields(core) == [core EXCEPT !.fields = @ \cup BaseFields]

\* zapcore.NewCore(encoder, syncer, level)
NewCore(encoder, syncer, level) ==
    [enc |-> encoder, out |-> syncer, level |-> level, fields |-> {}]

\* (mutation: base fields attached whatever the encoder)
newZapOutputLoggerAlwaysFields(prettyLogging, level) ==
    attachBaseFields(NewCore(IF prettyLogging THEN zapConsoleEncoder ELSE ZapJsonEncoder,
                             "stdout", level))
newZapOutputLogger(prettyLogging, level) ==
    LET encoder  == IF prettyLogging THEN zapConsoleEncoder ELSE ZapJsonEncoder
        baseCore == NewCore(encoder, "stdout", level)
    IN  IF ~prettyLogging THEN attachBaseFields(baseCore) ELSE baseCore

\* What zap.Open(file) hands back: err, and whether closer is non-nil.
OpenResults ==
    { [err |-> FALSE, closer |-> TRUE],
      [err |-> TRUE,  closer |-> FALSE],
      [err |-> TRUE,  closer |-> TRUE] }

\* zap.Open is not called when fileOutput is empty
NotOpened == [err |-> FALSE, closer |-> FALSE]

NoCore == [enc |-> "none"]

\* newZapFileLogger: the side effects in order, whether log.Fatalf ended the
\* process, and the core it returns otherwise.
\* (mutation: log.Printf in place of log.Fatalf)
newZapFileLoggerNoFatal(fileName, level, open) ==
    [effects |-> (IF open.err /\ open.closer THEN <<"closer">> ELSE <<>>)
                 \o (IF open.err THEN <<"could not open log file">> ELSE <<>>),
     exited  |-> FALSE,
     core    |-> attachBaseFields(NewCore(ZapJsonEncoder, "file", level))]
newZapFileLogger(fileName, level, open) ==
    LET closed  == IF open.err /\ open.closer THEN <<"closer">> ELSE <<>>
        fatal   == IF open.err THEN <<"could not open log file", "exit">> ELSE <<>>
    IN  [effects |-> closed \o fatal,
         exited  |-> open.err,
         core    |-> IF open.err THEN NoCore
                     ELSE attachBaseFields(NewCore(ZapJsonEncoder, "file", level))]

NoLogger == [cores |-> <<>>, addCaller |-> FALSE, addStack |-> FatalLevel + 1, built |-> FALSE]

\* (mutation: AddStacktrace moved under the debug branch)
newZapLoggerStackOnDebug(debug, cores) ==
    [cores |-> cores, addCaller |-> debug,
     addStack |-> IF debug THEN ErrorLevel ELSE FatalLevel + 1, built |-> TRUE]
newZapLogger(debug, cores) ==
    [cores |-> cores, addCaller |-> debug, addStack |-> ErrorLevel, built |-> TRUE]

\* New as a function of its arguments and of what zap.Open returns
\* (mutation: the file sink built with levelOutput)
NewResultSharedLevel(prettyLogging, debug, levelOutput, fileOutput, fileLevel, open) ==
    LET console == newZapOutputLogger(prettyLogging, levelOutput)
        opened  == newZapFileLogger(fileOutput, levelOutput, open)
    IN  IF fileOutput = ""
        THEN [effects |-> <<>>, exited |-> FALSE,
              logger |-> newZapLogger(debug, <<console>>)]
        ELSE IF opened.exited
        THEN [effects |-> opened.effects, exited |-> TRUE, logger |-> NoLogger]
        ELSE [effects |-> opened.effects, exited |-> FALSE,
              logger |-> newZapLogger(debug, <<console, opened.core>>)]
NewResult(prettyLogging, debug, levelOutput, fileOutput, fileLevel, open) ==
    LET console == newZapOutputLogger(prettyLogging, levelOutput)
        opened  == newZapFileLogger(fileOutput, fileLevel, open)
    IN  IF fileOutput = ""
        THEN [effects |-> <<>>, exited |-> FALSE,
              logger |-> newZapLogger(debug, <<console>>)]
        ELSE IF opened.exited
        THEN [effects |-> opened.effects, exited |-> TRUE, logger |-> NoLogger]
        ELSE [effects |-> opened.effects, exited |-> FALSE,
              logger |-> newZapLogger(debug, <<console, opened.core>>)]

\* The record a core writes for entry number id at severity lvl
Encode(core, lg, id, lvl) ==
    [id    |-> id,
     level |-> lvl,
     enc   |-> core.enc.kind,
     keys  |-> {core.enc.ec.TimeKey, core.enc.ec.LevelKey, core.enc.ec.MessageKey}
               \cup core.fields
               \cup (IF lg.addCaller THEN {core.enc.ec.CallerKey} ELSE {})
               \cup (IF LevelEnabled(lg.addStack, lvl)
                     THEN {core.enc.ec.StacktraceKey} ELSE {})]

\* What the tee appends to destination out for entry id at severity lvl: each
\* core from index i on whose level enables lvl writes its encoding
RECURSIVE WrittenFrom(_, _, _, _, _)
WrittenFrom(lg, out, id, lvl, i) ==
    IF i > Len(lg.cores) THEN <<>>
    ELSE (IF lg.cores[i].out = out /\ LevelEnabled(lg.cores[i].level, lvl)
          THEN <<Encode(lg.cores[i], lg, id, lvl)>> ELSE <<>>)
         \o WrittenFrom(lg, out, id, lvl, i + 1)

Written(lg, out, id, lvl) == WrittenFrom(lg, out, id, lvl, 1)

-----------------------------------------------------------------------------
(* Spec: configuration parsing, New, and emission through the logger *)

NotParsed == [in |-> <<>>, level |-> 0, err |-> NilError, done |-> FALSE]
NoCfg == [prettyLogging |-> FALSE, debug |-> FALSE, levelOutput |-> 0,
          fileOutput |-> "", fileLevel |-> 0, open |-> NotOpened, called |-> FALSE]

\* fileOutput: empty, or the path of a regular file
FileOutputs == {"", "router.log"}

\* level names a caller of New parses first
ConfigNames ==
    { NameDEBUG, <<"e","r","r","o","r">>, <<"W","A","R","N">>, <<>> }

InitLogger ==
    /\ parsed = NotParsed
    /\ phase = "start"
    /\ cfg = NoCfg
    /\ logger = NoLogger
    /\ effects = <<>>
    /\ emitted = <<>>
    /\ stdout = <<>>
    /\ file = <<>>

Threads == 1..NThreads

InitObserver ==
    /\ mu = 0
    /\ threads = [th \in Threads |-> [pc |-> "idle", sent |-> <<>>, logs |-> <<>>]]
    /\ observed = <<>>

NoTime == [sec |-> 0, nsec |-> 0]
NotEncoded == [set |-> FALSE, neg |-> FALSE, mag |-> <<>>]

InitTime ==
    /\ t = NoTime
    /\ jsonTime = NotEncoded
    /\ consoleTime = <<>>

Init == InitLogger /\ InitObserver /\ InitTime

Parse(logLevel) ==
    /\ phase = "start"
    /\ parsed' = [in |-> logLevel, done |-> TRUE,
                  level |-> ZapLogLevelFromString(logLevel).level,
                  err |-> ZapLogLevelFromString(logLevel).err]
    /\ UNCHANGED <<phase, cfg, logger, effects, emitted, stdout, file>>
    /\ UNCHANGED <<obsVars, timeVars>>

ParseConfig == \E n \in ConfigNames : Parse(n)

New ==
    \E prettyLogging \in BOOLEAN, debug \in BOOLEAN, levelOutput \in Levels,
       fileOutput \in FileOutputs, fileLevel \in Levels, open \in OpenResults :
        LET r == NewResult(prettyLogging, debug, levelOutput, fileOutput, fileLevel, open)
        IN  /\ phase = "start"
            /\ cfg' = [prettyLogging |-> prettyLogging, debug |-> debug,
                       levelOutput |-> levelOutput, fileOutput |-> fileOutput,
                       fileLevel |-> fileLevel, called |-> TRUE,
                       open |-> IF fileOutput = "" THEN NotOpened ELSE open]
            /\ effects' = r.effects
            /\ logger' = r.logger
            /\ phase' = IF r.exited THEN "exited" ELSE "ready"
            /\ UNCHANGED <<parsed, emitted, stdout, file>>
            /\ UNCHANGED <<obsVars, timeVars>>

\* logger.Check(lvl, msg).Write(): every enabled core writes; Fatal then exits
Emit ==
    \E lvl \in Levels :
        /\ phase = "ready"
        /\ Len(emitted) < MaxEmit
        /\ emitted' = Append(emitted, lvl)
        /\ stdout' = stdout \o Written(logger, "stdout", Len(emitted) + 1, lvl)
        /\ file' = file \o Written(logger, "file", Len(emitted) + 1, lvl)
        /\ phase' = IF lvl = FatalLevel THEN "exited" ELSE "ready"
        /\ UNCHANGED <<parsed, cfg, logger, effects>>
        /\ UNCHANGED <<obsVars, timeVars>>

Next == ParseConfig \/ New \/ Emit

Spec == Init /\ [][Next]_vars

-----------------------------------------------------------------------------
(* SpecParse: ZapLogLevelFromString applied to level names and near misses *)

SixNames == {NameDEBUG, NameINFO, NameWARNING, NameERROR, NameFATAL, NamePANIC}

\* every upper/lower case spelling of name
CaseVariants(name) ==
    { [i \in 1..Len(name) |-> IF i \in S THEN LowerChar(name[i]) ELSE name[i]] :
        S \in SUBSET (1..Len(name)) }

Prefixes(S) == UNION { { SubSeq(v, 1, k) : k \in 0..(Len(v) - 1) } : v \in S }

LevelStrings ==
    (UNION { CaseVariants(n) : n \in SixNames })
    \cup Prefixes(CaseVariants(NameWARNING))
    \cup Prefixes({NameDEBUG, NameINFO, NameERROR, NameFATAL, NamePANIC})
    \cup { <<" ">> \o v : v \in CaseVariants(NameINFO) }
    \cup { v \o <<" ">> : v \in CaseVariants(NameINFO) }
    \cup { v \o <<"S">> : v \in CaseVariants(NameINFO) }
    \cup { <<"0">>, <<"1">>, <<"2">>, <<"-","1">>, <<"5">>,
           <<"D","P","A","N","I","C">>, <<"T","R","A","C","E">>,
           <<"W","A","R","N","I","N","G","S">> }

ParseAny == \E n \in LevelStrings : Parse(n)

NextParse == ParseAny

SpecParse == Init /\ [][NextParse]_vars

-----------------------------------------------------------------------------
(* SpecObs: NThreads threads each emit MRecords records through NewObserver's logger *)

\* observer.New(zap.DebugLevel): the level of the in-memory core
\* (mutation: observer.New(zap.InfoLevel))
NewObserverLevelInfo == InfoLevel
NewObserverLevel == DebugLevel

\* the severity thread th logs its k-th record at
LevelOfRecord(th, k) == IF (th + k) % 2 = 0 THEN DebugLevel ELSE ErrorLevel

\* logger.Check: the core takes the entry when its level enables it, and Write
\* calls ObservedLogs.Add
Log(th) ==
    LET k   == Len(threads[th].sent) + 1
        rec == [thread |-> th, seq |-> k, level |-> LevelOfRecord(th, k)]
    IN  /\ threads[th].pc = "idle"
        /\ Len(threads[th].sent) < MRecords
        /\ threads' = [threads EXCEPT
                          ![th].sent = Append(@, rec),
                          ![th].pc = IF LevelEnabled(NewObserverLevel, rec.level)
                                     THEN "lock" ELSE "idle"]
        /\ UNCHANGED <<mu, observed, loggerVars, timeVars>>

\* whether o.mu.Lock() returns for th
MutexFree(th) == mu = 0

\* o.mu.Lock()
Lock(th) ==
    /\ threads[th].pc = "lock"
    /\ MutexFree(th)
    /\ mu' = th
    /\ threads' = [threads EXCEPT ![th].pc = "read"]
    /\ UNCHANGED <<observed, loggerVars, timeVars>>

\* append(o.logs, log) reads the slice ...
ReadLogs(th) ==
    /\ threads[th].pc = "read"
    /\ threads' = [threads EXCEPT ![th].pc = "write", ![th].logs = observed]
    /\ UNCHANGED <<mu, observed, loggerVars, timeVars>>

\* ... and o.logs = stores the extended slice
WriteLogs(th) ==
    /\ threads[th].pc = "write"
    /\ observed' = Append(threads[th].logs, threads[th].sent[Len(threads[th].sent)])
    /\ threads' = [threads EXCEPT ![th].pc = "unlock", ![th].logs = <<>>]
    /\ UNCHANGED <<mu, loggerVars, timeVars>>

\* o.mu.Unlock()
Unlock(th) ==
    /\ threads[th].pc = "unlock"
    /\ mu' = 0
    /\ threads' = [threads EXCEPT ![th].pc = "idle"]
    /\ UNCHANGED <<observed, loggerVars, timeVars>>

NextObs == \E th \in Threads : Log(th) \/ Lock(th) \/ ReadLogs(th) \/ WriteLogs(th) \/ Unlock(th)

SpecObs == Init /\ [][NextObs]_vars

-----------------------------------------------------------------------------
(* Arithmetic on naturals beyond the checker's integers: a natural is the     *)
(* sequence of its digits in base 2^10, least significant first, without a    *)
(* leading zero digit; a signed number is [neg, mag].                         *)

Base == 2^10

RECURSIVE Digits(_)
Digits(n) == IF n = 0 THEN <<>> ELSE <<n % Base>> \o Digits(n \div Base)

RECURSIVE Trim(_)
Trim(a) == IF a # <<>> /\ a[Len(a)] = 0 THEN Trim(SubSeq(a, 1, Len(a) - 1)) ELSE a

RECURSIVE BigAdd(_, _, _)
BigAdd(a, b, carry) ==
    IF a = <<>> /\ b = <<>>
    THEN Digits(carry)
    ELSE LET x == IF a = <<>> THEN 0 ELSE Head(a)
             y == IF b = <<>> THEN 0 ELSE Head(b)
         IN  <<(x + y + carry) % Base>>
             \o BigAdd(IF a = <<>> THEN <<>> ELSE Tail(a),
                        IF b = <<>> THEN <<>> ELSE Tail(b),
                        (x + y + carry) \div Base)

\* a - b for a >= b, digit by digit with a borrow
RECURSIVE BigSubDigits(_, _, _)
BigSubDigits(a, b, borrow) ==
    IF a = <<>> THEN <<>>
    ELSE LET y == IF b = <<>> THEN 0 ELSE Head(b)
         IN  <<(Head(a) - y - borrow) % Base>>
             \o BigSubDigits(Tail(a), IF b = <<>> THEN <<>> ELSE Tail(b),
                              IF Head(a) - y - borrow < 0 THEN 1 ELSE 0)

BigSub(a, b) == Trim(BigSubDigits(a, b, 0))

\* a * k + carry for a small k
RECURSIVE BigMulSmall(_, _, _)
BigMulSmall(a, k, carry) ==
    IF a = <<>> THEN Digits(carry)
    ELSE <<(Head(a) * k + carry) % Base>>
         \o BigMulSmall(Tail(a), k, (Head(a) * k + carry) \div Base)

\* long division by a small d, from the most significant digit (index i) down
RECURSIVE LongDiv(_, _, _, _, _)
LongDiv(a, d, i, rem, q) ==
    IF i = 0 THEN [q |-> Trim(q), r |-> rem]
    ELSE LongDiv(a, d, i - 1, (rem * Base + a[i]) % d,
                 <<(rem * Base + a[i]) \div d>> \o q)

\* quotient and remainder of a by the small d
DivMod(a, d) == LongDiv(a, d, Len(a), 0, <<>>)

\* the next n base-2^10 digits of rem / d after the point, first digit first
RECURSIVE FracDigits(_, _, _, _)
FracDigits(rem, d, n, acc) ==
    IF n = 0 THEN [digits |-> acc, r |-> rem]
    ELSE FracDigits((rem * Base) % d, d, n - 1, Append(acc, (rem * Base) \div d))

\* binary digits of a natural, least significant first
BitLen(a) ==
    IF a = <<>> THEN 0
    ELSE 10 * (Len(a) - 1) + (CHOOSE k \in 1..10 : 2^(k-1) <= a[Len(a)] /\ a[Len(a)] < 2^k)

BitAt(a, i) == (a[((i - 1) \div 10) + 1] \div 2^((i - 1) % 10)) % 2

Bits(a) == [i \in 1..BitLen(a) |-> BitAt(a, i)]

BitOr0(bits, i) == IF i <= Len(bits) THEN bits[i] ELSE 0

FromBits(bits) ==
    Trim([j \in 1..((Len(bits) + 9) \div 10) |->
            BitOr0(bits, 10*j - 9)       + 2 * BitOr0(bits, 10*j - 8)
          + 4 * BitOr0(bits, 10*j - 7)   + 8 * BitOr0(bits, 10*j - 6)
          + 16 * BitOr0(bits, 10*j - 5)  + 32 * BitOr0(bits, 10*j - 4)
          + 64 * BitOr0(bits, 10*j - 3)  + 128 * BitOr0(bits, 10*j - 2)
          + 256 * BitOr0(bits, 10*j - 1) + 512 * BitOr0(bits, 10*j)])

-----------------------------------------------------------------------------
(* time.Time, float64 and the two EncodeTime functions *)

\* time.Millisecond, in nanoseconds
Millisecond == 1000000

\* significand width of float64
Float64Mantissa == 53

\* t.UnixNano() = sec * 1e9 + nsec, with 0 <= nsec < 1e9
SecondsToNanos(sec) ==
    BigMulSmall(BigMulSmall(BigMulSmall(Digits(sec), 1000, 0), 1000, 0), 1000, 0)

UnixNano(tm) ==
    IF tm.sec >= 0
    THEN [neg |-> FALSE, mag |-> BigAdd(SecondsToNanos(tm.sec), Digits(tm.nsec), 0)]
    ELSE [neg |-> TRUE,  mag |-> BigSub(SecondsToNanos(-tm.sec), Digits(tm.nsec))]

\* float64(n) for a natural n: round to nearest, ties to even, on the top
\* Float64Mantissa binary digits; the result is again an integer
Float64(a) ==
    LET bits   == Bits(a)
        drop   == Len(bits) - Float64Mantissa
        guard  == bits[drop]
        sticky == \E i \in 1..(drop - 1) : bits[i] = 1
        up     == guard = 1 /\ (sticky \/ bits[drop + 1] = 1)
        floor  == FromBits([i \in 1..Len(bits) |-> IF i <= drop THEN 0 ELSE bits[i]])
    IN  IF Len(bits) <= Float64Mantissa THEN a
        ELSE IF up THEN BigAdd(floor, FromBits([i \in 1..(drop + 1) |->
                                                  IF i = drop + 1 THEN 1 ELSE 0]), 0)
        ELSE floor

\* binary digit i after the point of a fraction given as base-2^10 digits
FracBit(digits, i) == (digits[((i - 1) \div 10) + 1] \div 2^(9 - ((i - 1) % 10))) % 2

\* math.Trunc(x / float64(time.Millisecond)) for a float64 x holding a natural:
\* the quotient is rounded to Float64Mantissa binary digits (nearest, ties to
\* even) and its integer part taken. An int64 divided by 1e6 has fewer than
\* Float64Mantissa integer digits, so the rounding acts on the fraction; a
\* quotient below 1 is at most 1 - 1e-6 and does not round up to 1.
TruncQuo(x) ==
    LET dm     == DivMod(x, Millisecond)
        nf     == Float64Mantissa - BitLen(dm.q)
        fr     == FracDigits(dm.r, Millisecond, 6, <<>>)
        guard  == FracBit(fr.digits, nf + 1)
        sticky == fr.r # 0 \/ \E i \in (nf + 2)..60 : FracBit(fr.digits, i) = 1
        last   == IF nf = 0 THEN dm.q[1] % 2 ELSE FracBit(fr.digits, nf)
        up     == guard = 1 /\ (sticky \/ last = 1)
    IN  IF dm.q = <<>> THEN <<>>
        ELSE IF up /\ \A i \in 1..nf : FracBit(fr.digits, i) = 1
        THEN BigAdd(dm.q, <<1>>, 0)
        ELSE dm.q

\* ZapJsonEncoder's EncodeTime: int64(math.Trunc(float64(nanos) / float64(time.Millisecond)))
JsonEncodeTime(tm) ==
    LET nanos == UnixNano(tm)
        q     == TruncQuo(Float64(nanos.mag))
    IN  [set |-> TRUE, neg |-> nanos.neg /\ q # <<>>, mag |-> q]

SecondsPerDay == 86400

TwoDigits(n) == <<(<<"0","1","2","3","4","5","6","7","8","9">>)[(n \div 10) + 1],
                  (<<"0","1","2","3","4","5","6","7","8","9">>)[(n % 10) + 1]>>

Hour(tm)   == (tm.sec % SecondsPerDay) \div 3600
Minute(tm) == ((tm.sec % SecondsPerDay) % 3600) \div 60
Second(tm) == tm.sec % 60

\* one chunk of a time.Format layout
FormatChunk(chunk, tm) ==
    CASE chunk = "15" -> TwoDigits(Hour(tm))
      [] chunk = "03" -> TwoDigits(IF Hour(tm) % 12 = 0 THEN 12 ELSE Hour(tm) % 12)
      [] chunk = "04" -> TwoDigits(Minute(tm))
      [] chunk = "05" -> TwoDigits(Second(tm))
      [] chunk = "PM" -> IF Hour(tm) >= 12 THEN <<"P","M">> ELSE <<"A","M">>
      [] OTHER        -> <<chunk>>

RECURSIVE Format(_, _)
Format(layout, tm) ==
    IF layout = <<>> THEN <<>>
    ELSE FormatChunk(Head(layout), tm) \o Format(Tail(layout), tm)

\* the layout "15:04:05 PM" as time.Format splits it
ConsoleLayout == <<"15", ":", "04", ":", "05", " ", "PM">>

\* zapConsoleEncoder's EncodeTime: zapcore.TimeEncoderOfLayout("15:04:05 PM")
ConsoleEncodeTime(tm) == Format(ConsoleLayout, tm)

-----------------------------------------------------------------------------
(* SpecTime: the two encoders' EncodeTime applied to entry times (UTC) *)

\* 2023-11-15 00:00:00 UTC, in seconds since the epoch
Midnight == 19676 * SecondsPerDay

EntrySeconds ==
    {-2, -1, 0, 1} \cup { Midnight + 3600 * h + 245 : h \in 0..23 }

EntryNanos ==
    {0, 1, 999999, 1000000, 1999999, 2000000, 500000000, 999999999}

EntryTimes == [sec : EntrySeconds, nsec : EntryNanos]

InitEntryTime ==
    /\ InitLogger
    /\ InitObserver
    /\ t \in EntryTimes
    /\ jsonTime = NotEncoded
    /\ consoleTime = <<>>

\* the JSON encoder encodes the entry
EncodeJson ==
    /\ ~jsonTime.set
    /\ jsonTime' = JsonEncodeTime(t)
    /\ UNCHANGED <<t, consoleTime, loggerVars, obsVars>>

\* the console encoder encodes the entry
EncodeConsole ==
    /\ consoleTime = <<>>
    /\ consoleTime' = ConsoleEncodeTime(t)
    /\ UNCHANGED <<t, jsonTime, loggerVars, obsVars>>

NextTime == EncodeJson \/ EncodeConsole

SpecTime == InitEntryTime /\ [][NextTime]_vars

-----------------------------------------------------------------------------
(* Properties *)

HasId(out, i) == \E k \in 1..Len(out) : out[k].id = i
CountId(out, i) == Cardinality({ k \in 1..Len(out) : out[k].id = i })
Records(out) == { out[k] : k \in 1..Len(out) }

IsCaseVariant(n, name) ==
    /\ Len(n) = Len(name)
    /\ \A i \in 1..Len(name) : n[i] \in {name[i], LowerChar(name[i])}

NamedLevel(name) ==
    CASE name = NameDEBUG   -> DebugLevel
      [] name = NameINFO    -> InfoLevel
      [] name = NameWARNING -> WarnLevel
      [] name = NameERROR   -> ErrorLevel
      [] name = NameFATAL   -> FatalLevel
      [] name = NamePANIC   -> PanicLevel

\* C2: ZapLogLevelFromString returns the named level and a nil error for every
\* upper/lower case spelling of DEBUG, INFO, WARNING, ERROR, FATAL, PANIC; for
\* every other string it returns an "unknown log level" error whose message
\* carries the input exactly as passed.
C2_ParseLevel ==
    parsed.done =>
        IF \E name \in SixNames : IsCaseVariant(parsed.in, name)
        THEN /\ parsed.err.nil
             /\ \A name \in SixNames :
                   IsCaseVariant(parsed.in, name) => parsed.level = NamedLevel(name)
        ELSE /\ ~parsed.err.nil
             /\ parsed.err.msg = UnknownLevelPrefix \o parsed.in

C2_Witness ==
    /\ parsed.done
    /\ parsed.in = <<"w","a","r","n">>
    /\ ~parsed.err.nil
    /\ SubSeq(parsed.err.msg, Len(UnknownLevelPrefix) + 1, Len(parsed.err.msg))
         = <<"w","a","r","n">>

\* C3: when fileOutput is non-empty and cannot be opened, New returns no logger:
\* the closer is invoked if non-nil, then "could not open log file" is printed,
\* then the process terminates; when the file opens none of these happens and
\* a logger is returned.
C3_OpenFailureIsFatal ==
    (cfg.called /\ cfg.fileOutput # "") =>
        IF cfg.open.err
        THEN /\ ~logger.built
             /\ phase = "exited"
             /\ emitted = <<>>
             /\ effects = (IF cfg.open.closer THEN <<"closer">> ELSE <<>>)
                           \o <<"could not open log file", "exit">>
        ELSE /\ logger.built
             /\ effects = <<>>

C3_Witness ==
    /\ cfg.called /\ cfg.fileOutput # "" /\ cfg.open.err
    /\ effects = <<"closer", "could not open log file", "exit">>
    /\ phase = "exited"

\* C4: whatever debug is, every record written at severity ERROR or above
\* carries a stacktrace, and every record below ERROR carries none.
C4_Stacktrace ==
    \A r \in Records(stdout) \cup Records(file) :
        ("stacktrace" \in r.keys) <=> (r.level >= ErrorLevel)

C4_Witness ==
    /\ ~cfg.debug
    /\ \E r \in Records(stdout) : r.level = ErrorLevel /\ "stacktrace" \in r.keys
    /\ \E r \in Records(file) : r.level = WarnLevel /\ "stacktrace" \notin r.keys

\* C5: records written by a JSON sink (console sink without prettyLogging, the
\* file sink always) carry hostname and pid; records written by the pretty
\* console sink carry neither.
C5_BaseFields ==
    /\ \A r \in Records(stdout) :
          /\ r.enc = IF cfg.prettyLogging THEN "console" ELSE "json"
          /\ r.enc = "json" => BaseFields \subseteq r.keys
          /\ r.enc = "console" => BaseFields \cap r.keys = {}
    /\ \A r \in Records(file) :
          /\ r.enc = "json"
          /\ BaseFields \subseteq r.keys

C5_Witness ==
    /\ cfg.prettyLogging
    /\ \E r \in Records(stdout) : r.enc = "console" /\ BaseFields \cap r.keys = {}
    /\ \E r \in Records(file) : r.enc = "json" /\ BaseFields \subseteq r.keys

ClaimedOrder == <<NameDEBUG, NameINFO, NameWARNING, NameERROR, NameFATAL, NamePANIC>>
ActualOrder  == <<NameDEBUG, NameINFO, NameWARNING, NameERROR, NamePANIC, NameFATAL>>

\* the levels ZapLogLevelFromString returns for the names, in each order
ClaimedLevels == [i \in 1..Len(ClaimedOrder) |-> ZapLogLevelFromString(ClaimedOrder[i]).level]
ActualLevels  == [i \in 1..Len(ActualOrder) |-> ZapLogLevelFromString(ActualOrder[i]).level]

RankIn(order, lvl) == CHOOSE i \in 1..Len(order) : order[i] = lvl

\* each sink writes exactly the records whose level is at or after its own in order
SinksFollow(order) ==
    logger.built =>
        \A i \in 1..Len(emitted) :
            /\ HasId(stdout, i)
                 <=> RankIn(order, emitted[i]) >= RankIn(order, cfg.levelOutput)
            /\ cfg.fileOutput # "" =>
                 (HasId(file, i)
                    <=> RankIn(order, emitted[i]) >= RankIn(order, cfg.fileLevel))

\* C7 as stated: the sinks filter by DEBUG < INFO < WARNING < ERROR < FATAL < PANIC,
\* so a sink at FATAL writes a PANIC record and a sink at PANIC drops a FATAL one.
C7_ClaimedOrder == SinksFollow(ClaimedLevels)

\* C7 amended: the sinks filter by DEBUG < INFO < WARNING < ERROR < PANIC < FATAL,
\* so a sink at PANIC writes a FATAL record and a sink at FATAL drops a PANIC one.
C7_ActualOrder == SinksFollow(ActualLevels)

C7_Witness ==
    /\ logger.built
    /\ cfg.levelOutput = ZapLogLevelFromString(NamePANIC).level
    /\ cfg.fileOutput # ""
    /\ cfg.fileLevel = ZapLogLevelFromString(NameFATAL).level
    /\ emitted = <<ZapLogLevelFromString(NamePANIC).level,
                   ZapLogLevelFromString(NameFATAL).level>>
    /\ HasId(stdout, 1) /\ HasId(stdout, 2)
    /\ ~HasId(file, 1) /\ HasId(file, 2)

\* C10: on an unknown name ZapLogLevelFromString returns -1 with the error, the
\* value it returns for "DEBUG"; a sink New builds at that level writes every
\* record from DEBUG upward.
C10_UnknownNameIsDebug ==
    (parsed.done /\ ~parsed.err.nil) =>
        /\ parsed.level = -1
        /\ parsed.level = ZapLogLevelFromString(NameDEBUG).level
        /\ ZapLogLevelFromString(NameDEBUG).err.nil
        /\ (logger.built /\ cfg.levelOutput = parsed.level) =>
              \A i \in 1..Len(emitted) : HasId(stdout, i)
        /\ (logger.built /\ cfg.fileOutput # "" /\ cfg.fileLevel = parsed.level) =>
              \A i \in 1..Len(emitted) : HasId(file, i)

C10_Witness ==
    /\ parsed.done /\ ~parsed.err.nil
    /\ parsed.in = <<"W","A","R","N">>
    /\ logger.built
    /\ cfg.levelOutput = parsed.level
    /\ emitted = <<DebugLevel, InfoLevel>>
    /\ HasId(stdout, 1) /\ HasId(stdout, 2)

AllDone ==
    \A th \in Threads : threads[th].pc = "idle" /\ Len(threads[th].sent) = MRecords

Position(rec) == { i \in 1..Len(observed) : observed[i] = rec }

\* C6: once NThreads threads have each emitted MRecords records through the
\* observer's logger, the observed logs hold exactly NThreads * MRecords
\* records, each emitted record exactly once and unaltered, and each thread's
\* records in the order the thread emitted them.
C6_ObserverKeepsAll ==
    AllDone =>
        /\ Len(observed) = NThreads * MRecords
        /\ \A th \in Threads : \A k \in 1..MRecords :
              Cardinality(Position(threads[th].sent[k])) = 1
        /\ \A th \in Threads : \A j, k \in 1..MRecords :
              j < k => \A a \in Position(threads[th].sent[j]) :
                         \A b \in Position(threads[th].sent[k]) : a < b

C6_Witness ==
    /\ AllDone
    /\ Len(observed) = NThreads * MRecords
    /\ observed[1].thread # observed[2].thread
    /\ observed[2].thread # observed[3].thread
    /\ \E i \in 1..Len(observed) : observed[i].level = DebugLevel

\* floor(t_nanos / 1_000_000), computed exactly
FloorMillis(tm) ==
    LET nanos == UnixNano(tm)
        dm    == DivMod(nanos.mag, Millisecond)
    IN  IF ~nanos.neg THEN [neg |-> FALSE, mag |-> dm.q]
        ELSE IF dm.r = 0 THEN [neg |-> dm.q # <<>>, mag |-> dm.q]
        ELSE [neg |-> TRUE, mag |-> BigAdd(dm.q, <<1>>, 0)]

\* C8: the integer the JSON encoder writes in the time field equals
\* floor(t_nanos / 1_000_000), also for times before the epoch and for times
\* one nanosecond short of a whole millisecond.
C8_TimeIsFloorMillis ==
    jsonTime.set =>
        /\ jsonTime.neg = FloorMillis(t).neg
        /\ jsonTime.mag = FloorMillis(t).mag

\* C9: the pretty console encoder renders the time on a 12-hour clock: the
\* hour shown is 01..12 for every hour of the day, AM/PM tells the halves of
\* the day apart, and 15:04:05 is rendered "03:04:05 PM".
C9_TwelveHourClock ==
    consoleTime # <<>> =>
        /\ SubSeq(consoleTime, 1, 2) \in { TwoDigits(h) : h \in 1..12 }
        /\ SubSeq(consoleTime, 10, 11)
             = (IF Hour(t) >= 12 THEN <<"P","M">> ELSE <<"A","M">>)
        /\ (Hour(t) = 15 /\ Minute(t) = 4 /\ Second(t) = 5) =>
              consoleTime = <<"0","3",":","0","4",":","0","5"," ","P","M">>

====
